---- MODULE Spec2Model ----
(***************************************************************************)
(* Model of x-pack/metricbeat/module/aws/cloudwatch/cloudwatch.go.         *)
(*                                                                         *)
(* Go strings are sequences of one-character strings, so that building a   *)
(* label and splitting it again are computed character by character.       *)
(* A Go slice that may be nil is a record [nil, items].                    *)
(***************************************************************************)
EXTENDS Integers, Sequences, FiniteSets, TLC

VARIABLES
  pc,         \* position of the running operation
  arg,        \* the inputs of the operation under check
  ret,        \* what the operation returned
  regionIdx,  \* Fetch: index into RegionsList of the region being processed
  nsTodo,     \* Fetch: namespaces of namespaceDetailTotal not yet ranged over in this region
  reported,   \* Fetch: the events handed to report.Event, with the pass and map key of each
  inits,      \* Fetch: per finished createEvents call, the identities InitEvent was called for
  attempted   \* Fetch: the passes (phase, region, namespace) whose external calls were made

vars == <<pc, arg, ret, regionIdx, nsTodo, reported, inits, attempted>>

(***************************************************************************)
(* Bounds of the checked instances.                                        *)
(***************************************************************************)
MaxDims == 2
MaxLabelDims == 2
MaxConfigs == 2
MaxListed == 2
MaxSpecs == 2
MaxMetrics == 11
MaxRegions == 2

(***************************************************************************)
(* Strings.                                                                *)
(***************************************************************************)
labelSeparator == "|"
dimensionSeparator == ","
dimensionValueWildcard == <<"*">>

\* strings.Split(s, sep) for a one-character separator.
RECURSIVE Split(_, _)
Split(s, sep) ==
  IF \A i \in 1..Len(s) : s[i] # sep
  THEN <<s>>
  ELSE LET i == CHOOSE k \in 1..Len(s) : s[k] = sep /\ \A j \in 1..(k - 1) : s[j] # sep
       IN  <<SubSeq(s, 1, i - 1)>> \o Split(SubSeq(s, i + 1, Len(s)), sep)

\* strings.HasPrefix(s, p).
HasPrefix(s, p) == Len(s) >= Len(p) /\ SubSeq(s, 1, Len(p)) = p

\* common.DeDot: every "." becomes "_".
DeDot(s) == [i \in 1..Len(s) |-> IF s[i] = "." THEN "_" ELSE s[i]]

\* strings.ToLower on the letters the model uses.
LowerChar(c) ==
  CASE c = "E" -> "e"
    [] c = "S" -> "s"
    [] c = "A" -> "a"
    [] c = "W" -> "w"
    [] OTHER -> c

ToLower(s) == [i \in 1..Len(s) |-> LowerChar(s[i])]

\* strconv.Itoa for n >= 0.
Digit(d) == CASE d = 0 -> "0" [] d = 1 -> "1" [] d = 2 -> "2" [] d = 3 -> "3" [] d = 4 -> "4"
              [] d = 5 -> "5" [] d = 6 -> "6" [] d = 7 -> "7" [] d = 8 -> "8" [] d = 9 -> "9"

RECURSIVE Itoa(_)
Itoa(n) == IF n < 10 THEN <<Digit(n)>> ELSE Itoa(n \div 10) \o <<Digit(n % 10)>>

\* A Go slice: nil, or a (possibly empty) list of items.
NilSlice == [nil |-> TRUE, items |-> <<>>]
Slice(items) == [nil |-> FALSE, items |-> items]

\* Sequences over S of length at most n.
SeqUpTo(S, n) == UNION {[1..k -> S] : k \in 0..n}

Range(s) == {s[i] : i \in 1..Len(s)}

(***************************************************************************)
(* CompareAWSDimensions.                                                   *)
(***************************************************************************)
\* The Go map built by assigning dims[1..n] in order: a later entry of the same
\* name replaces an earlier one.
NameToValue(dims, n) ==
  [name \in {dims[i].Name : i \in 1..n} |->
     dims[CHOOSE i \in 1..n : dims[i].Name = name
                               /\ \A j \in (i + 1)..n : dims[j].Name # name].Value]

\* The comparison without the substitution of wildcards.
CompareAWSDimensionsNoWildcard(dim1, dim2) ==
  IF Len(dim1) # Len(dim2) THEN FALSE
  ELSE NameToValue(dim1, Len(dim2)) = NameToValue(dim2, Len(dim2))

\* The comparison checking only that dim1's entries are found in dim2.
CompareAWSDimensionsOneWay(dim1, dim2) ==
  IF Len(dim1) # Len(dim2) THEN FALSE
  ELSE LET m1 == NameToValue(dim1, Len(dim2))
           m2 == NameToValue(dim2, Len(dim2))
       IN  \A name \in DOMAIN m1 :
             name \in DOMAIN m2 /\ (m2[name] = dimensionValueWildcard \/ m2[name] = m1[name])

CompareAWSDimensions(dim1, dim2) ==
  IF Len(dim1) # Len(dim2) THEN FALSE
  ELSE LET dim1NameToValue == NameToValue(dim1, Len(dim2))
           dim2NameToValue == NameToValue(dim2, Len(dim2))
           resolved == [name \in DOMAIN dim2NameToValue |->
                          IF name \in DOMAIN dim1NameToValue
                             /\ dim2NameToValue[name] = dimensionValueWildcard
                          THEN dim1NameToValue[name]
                          ELSE dim2NameToValue[name]]
       IN  dim1NameToValue = resolved

(***************************************************************************)
(* Statistics, labels, queries and field names.                            *)
(***************************************************************************)
metricNameIdx == 0
namespaceIdx == 1
statisticIdx == 2
identifierNameIdx == 3
identifierValueIdx == 4

\* labels[idx] of a Go slice (indices from 0).
At(s, idx) == s[idx + 1]

Average == <<"A", "v", "e", "r", "a", "g", "e">>
Maximum == <<"M", "a", "x", "i", "m", "u", "m">>
Minimum == <<"M", "i", "n", "i", "m", "u", "m">>
Sum == <<"S", "u", "m">>
SampleCount == <<"S", "a", "m", "p", "l", "e", "C", "o", "u", "n", "t">>
defaultStatistics == <<Average, Maximum, Minimum, Sum, SampleCount>>

StatisticLookup(stat) ==
  CASE stat = Average -> [statMethod |-> <<"a", "v", "g">>, ok |-> TRUE]
    [] stat = Sum -> [statMethod |-> <<"s", "u", "m">>, ok |-> TRUE]
    [] stat = Maximum -> [statMethod |-> <<"m", "a", "x">>, ok |-> TRUE]
    [] stat = Minimum -> [statMethod |-> <<"m", "i", "n">>, ok |-> TRUE]
    [] stat = SampleCount -> [statMethod |-> <<"c", "o", "u", "n", "t">>, ok |-> TRUE]
    [] OTHER -> [statMethod |-> stat, ok |-> HasPrefix(stat, <<"p">>)]

\* The loop of ConstructLabel over metric.Dimensions: the names (or the values)
\* joined by the dimension separator.
RECURSIVE JoinDims(_, _, _)
JoinDims(dims, field, i) ==
  IF i > Len(dims) THEN <<>>
  ELSE dims[i][field]
       \o (IF i # Len(dims) THEN <<dimensionSeparator>> ELSE <<>>)
       \o JoinDims(dims, field, i + 1)

ConstructLabel(metric, statistic) ==
  LET label == metric.MetricName \o <<labelSeparator>> \o metric.Namespace
               \o <<labelSeparator>> \o statistic
      dimNames == JoinDims(metric.Dimensions, "Name", 1)
      dimValues == JoinDims(metric.Dimensions, "Value", 1)
  IN  IF dimNames # <<>> /\ dimValues # <<>>
      THEN label \o <<labelSeparator>> \o dimNames \o <<labelSeparator>> \o dimValues
      ELSE label

\* The id of the query of metric i and statistic j (both from 0).
QueryIdMetricOnly(i, j) == <<"c", "w">> \o Itoa(i) \o <<"s", "t", "a", "t", "s">>

QueryId(i, j) == <<"c", "w">> \o Itoa(i) \o <<"s", "t", "a", "t", "s">> \o Itoa(j)

RECURSIVE QueriesOfMetric(_, _, _)
QueriesOfMetric(listMetric, i, j) ==
  IF j >= Len(listMetric.Statistic) THEN <<>>
  ELSE <<[Id |-> QueryId(i, j),
          Stat |-> At(listMetric.Statistic, j),
          Metric |-> listMetric.CloudwatchMetric,
          Label |-> ConstructLabel(listMetric.CloudwatchMetric, At(listMetric.Statistic, j))]>>
       \o QueriesOfMetric(listMetric, i, j + 1)

RECURSIVE QueriesFrom(_, _)
QueriesFrom(listMetricsTotal, i) ==
  IF i >= Len(listMetricsTotal) THEN <<>>
  ELSE QueriesOfMetric(At(listMetricsTotal, i), i, 0) \o QueriesFrom(listMetricsTotal, i + 1)

CreateMetricDataQueries(listMetricsTotal) == QueriesFrom(listMetricsTotal, 0)

Last(s) == s[Len(s)]

StripNamespace(namespace) == ToLower(Last(Split(namespace, "/")))

GenerateFieldName(namespace, labels) ==
  <<"a", "w", "s", ".">> \o StripNamespace(namespace)
  \o <<".", "m", "e", "t", "r", "i", "c", "s", ".">>
  \o DeDot(At(labels, metricNameIdx)) \o <<".">>
  \o StatisticLookup(At(labels, statisticIdx)).statMethod

\* MapStr.Put on a flat key: the last write wins.
Put(fields, key, value) ==
  [k \in DOMAIN fields \cup {key} |-> IF k = key THEN value ELSE fields[k]]

NamespaceField ==
  <<"a", "w", "s", ".", "c", "l", "o", "u", "d", "w", "a", "t", "c", "h", ".",
    "n", "a", "m", "e", "s", "p", "a", "c", "e">>
DimensionsPrefix ==
  <<"a", "w", "s", ".", "d", "i", "m", "e", "n", "s", "i", "o", "n", "s", ".">>
TagsPrefix == <<"a", "w", "s", ".", "t", "a", "g", "s", ".">>

RECURSIVE PutDimensions(_, _, _, _)
PutDimensions(fields, dimNames, dimValues, i) ==
  IF i > Len(dimNames) THEN fields
  ELSE PutDimensions(Put(fields, DimensionsPrefix \o dimNames[i], dimValues[i]),
                     dimNames, dimValues, i + 1)

\* InsertRootFields returns the event, or panics on an index out of range:
\* labels[identifierValueIdx] of a label of 4 fields, dimValues[i] when the
\* values field splits into fewer parts than the names field.
InsertRootFields(event, metricValue, labels) ==
  LET namespace == At(labels, namespaceIdx)
      withMetric == Put(Put(event.RootFields, GenerateFieldName(namespace, labels), metricValue),
                        NamespaceField, namespace)
  IN  IF Len(labels) = 3
      THEN [panic |-> FALSE, event |-> [event EXCEPT !.RootFields = withMetric]]
      ELSE IF Len(labels) < 5
      THEN [panic |-> TRUE, event |-> event]
      ELSE LET dimNames == Split(At(labels, identifierNameIdx), dimensionSeparator)
               dimValues == Split(At(labels, identifierValueIdx), dimensionSeparator)
           IN  IF Len(dimValues) < Len(dimNames)
               THEN [panic |-> TRUE, event |-> event]
               ELSE [panic |-> FALSE,
                     event |-> [event EXCEPT
                                  !.RootFields = PutDimensions(withMetric, dimNames, dimValues, 1)]]

(***************************************************************************)
(* The configuration: readCloudwatchConfig and what it calls.              *)
(***************************************************************************)
\* Only the first dimension is looked at.
ConfigDimensionValueContainsWildcardFirst(dim) ==
  Len(dim) > 0 /\ dim[1].Value = dimensionValueWildcard

ConfigDimensionValueContainsWildcard(dim) ==
  \E i \in 1..Len(dim) : dim[i].Value = dimensionValueWildcard

\* checkStatistics: TRUE when it returns nil.
checkStatistics(CloudwatchConfigs) ==
  \A i \in 1..Len(CloudwatchConfigs) :
    \A j \in 1..Len(CloudwatchConfigs[i].Statistic.items) :
      StatisticLookup(CloudwatchConfigs[i].Statistic.items[j]).ok

\* cloudwatchDimensions of one entry: nil unless a dimension was appended.
CloudwatchDimensions(config) ==
  IF Len(config.Dimensions.items) = 0 THEN NilSlice ELSE Slice(config.Dimensions.items)

\* Whether readCloudwatchConfig takes the branch of lines 344-363 for the entry.
IsExactEntry(config) ==
  /\ ~config.MetricName.nil
  /\ ~config.Dimensions.nil
  /\ ~ConfigDimensionValueContainsWildcard(config.Dimensions.items)

\* config.Statistic after the default is substituted.
StatisticOf(config) ==
  IF config.Statistic.nil THEN defaultStatistics ELSE config.Statistic.items

\* configPerNamespace of an entry (lines 365-371).
NamespaceDetailOf(config, TagsFilter) ==
  [Names |-> config.MetricName,
   Tags |-> TagsFilter,
   Statistics |-> StatisticOf(config),
   ResourceTypeFilter |-> config.ResourceType,
   Dimensions |-> CloudwatchDimensions(config)]

\* One iteration of the loop of readCloudwatchConfig, on its accumulators.
ReadConfigEntry(acc, config, TagsFilter) ==
  IF IsExactEntry(config)
  THEN [acc EXCEPT
          !.metricsWithStatsTotal =
             @ \o [i \in 1..Len(config.MetricName.items) |->
                     [CloudwatchMetric |-> [Namespace |-> config.Namespace,
                                            MetricName |-> config.MetricName.items[i],
                                            Dimensions |-> CloudwatchDimensions(config).items],
                      Statistic |-> StatisticOf(config)]],
          !.resourceTypesWithTags =
             IF config.ResourceType # <<>>
             THEN Put(@, config.ResourceType, TagsFilter)
             ELSE @]
  ELSE LET configPerNamespace == NamespaceDetailOf(config, TagsFilter)
       IN  [acc EXCEPT
              !.namespaceDetailTotal =
                 Put(@, config.Namespace,
                     (IF config.Namespace \in DOMAIN @ THEN @[config.Namespace] ELSE <<>>)
                     \o <<configPerNamespace>>)]

RECURSIVE ReadConfigLoop(_, _, _, _)
ReadConfigLoop(acc, CloudwatchConfigs, i, TagsFilter) ==
  IF i > Len(CloudwatchConfigs) THEN acc
  ELSE ReadConfigLoop(ReadConfigEntry(acc, CloudwatchConfigs[i], TagsFilter),
                      CloudwatchConfigs, i + 1, TagsFilter)

EmptyMap == [k \in {} |-> <<>>]

readCloudwatchConfig(CloudwatchConfigs, TagsFilter) ==
  LET acc == ReadConfigLoop([metricsWithStatsTotal |-> <<>>,
                             resourceTypesWithTags |-> EmptyMap,
                             namespaceDetailTotal |-> EmptyMap],
                            CloudwatchConfigs, 1, TagsFilter)
  IN  [listMetricDetailTotal |-> [MetricsWithStats |-> acc.metricsWithStatsTotal,
                                  ResourceTypeFilters |-> acc.resourceTypesWithTags],
       namespaceDetailTotal |-> acc.namespaceDetailTotal]

(***************************************************************************)
(* FilterListMetricsOutput and ConstructTagsFilters.                       *)
(***************************************************************************)
StringInSlice(str, list) == \E i \in 1..Len(list) : list[i] = str

\* Whether the body of the inner loop appends the metric for the spec.
FilterKeeps(listMetric, configPerNamespace) ==
  IF ~configPerNamespace.Names.nil /\ configPerNamespace.Dimensions.nil
  THEN StringInSlice(listMetric.MetricName, configPerNamespace.Names.items)
  ELSE IF configPerNamespace.Names.nil /\ ~configPerNamespace.Dimensions.nil
  THEN CompareAWSDimensions(listMetric.Dimensions, configPerNamespace.Dimensions.items)
  ELSE IF ~configPerNamespace.Names.nil /\ ~configPerNamespace.Dimensions.nil
  THEN /\ StringInSlice(listMetric.MetricName, configPerNamespace.Names.items)
       /\ CompareAWSDimensions(listMetric.Dimensions, configPerNamespace.Dimensions.items)
  ELSE TRUE

RECURSIVE FilterInner(_, _, _)
FilterInner(listMetric, namespaceDetails, j) ==
  IF j > Len(namespaceDetails) THEN <<>>
  ELSE (IF FilterKeeps(listMetric, namespaceDetails[j])
        THEN <<[CloudwatchMetric |-> listMetric, Statistic |-> namespaceDetails[j].Statistics]>>
        ELSE <<>>)
       \o FilterInner(listMetric, namespaceDetails, j + 1)

\* The inner loop leaving at the first spec that keeps the metric.
RECURSIVE FilterInnerFirstMatch(_, _, _)
FilterInnerFirstMatch(listMetric, namespaceDetails, j) ==
  IF j > Len(namespaceDetails) THEN <<>>
  ELSE IF FilterKeeps(listMetric, namespaceDetails[j])
  THEN <<[CloudwatchMetric |-> listMetric, Statistic |-> namespaceDetails[j].Statistics]>>
  ELSE FilterInnerFirstMatch(listMetric, namespaceDetails, j + 1)

RECURSIVE FilterOuterFirstMatch(_, _, _)
FilterOuterFirstMatch(listMetricsOutput, namespaceDetails, i) ==
  IF i > Len(listMetricsOutput) THEN <<>>
  ELSE FilterInnerFirstMatch(listMetricsOutput[i], namespaceDetails, 1)
       \o FilterOuterFirstMatch(listMetricsOutput, namespaceDetails, i + 1)

FilterListMetricsOutputFirstMatch(listMetricsOutput, namespaceDetails) ==
  FilterOuterFirstMatch(listMetricsOutput, namespaceDetails, 1)

RECURSIVE FilterOuter(_, _, _)
FilterOuter(listMetricsOutput, namespaceDetails, i) ==
  IF i > Len(listMetricsOutput) THEN <<>>
  ELSE FilterInner(listMetricsOutput[i], namespaceDetails, 1)
       \o FilterOuter(listMetricsOutput, namespaceDetails, i + 1)

FilterListMetricsOutput(listMetricsOutput, namespaceDetails) ==
  FilterOuter(listMetricsOutput, namespaceDetails, 1)

RECURSIVE ConstructTagsFiltersLoop(_, _, _)
ConstructTagsFiltersLoop(resourceTypeTagFilters, namespaceDetails, i) ==
  IF i > Len(namespaceDetails) THEN resourceTypeTagFilters
  ELSE LET configPerNamespace == namespaceDetails[i]
           rt == configPerNamespace.ResourceTypeFilter
       IN  ConstructTagsFiltersLoop(
             IF rt # <<>>
             THEN Put(resourceTypeTagFilters, rt,
                      IF rt \in DOMAIN resourceTypeTagFilters
                      THEN resourceTypeTagFilters[rt] \o configPerNamespace.Tags
                      ELSE configPerNamespace.Tags)
             ELSE resourceTypeTagFilters,
             namespaceDetails, i + 1)

ConstructTagsFilters(namespaceDetails) ==
  ConstructTagsFiltersLoop(EmptyMap, namespaceDetails, 1)

(***************************************************************************)
(* createEvents and what it calls.                                         *)
(***************************************************************************)
AccountID == <<"7">>
ArnPrefix == <<"a", "r", "n", ":">>

\* aws.InitEvent: a new event of the region and the timestamp, with no field yet.
InitEvent(regionName, timestamp) ==
  [region |-> regionName, Timestamp |-> timestamp, RootFields |-> EmptyMap]

\* aws.FindTimestamp: the timestamp found in the most results, the most recent
\* of them on a tie; 0 (the zero time) when no result has a data point.
FindTimestamp(metricDataResults) ==
  LET all == UNION {Range(metricDataResults[k].Timestamps) : k \in 1..Len(metricDataResults)}
      Freq(t) == Cardinality({k \in 1..Len(metricDataResults) :
                                t \in Range(metricDataResults[k].Timestamps)})
  IN  IF all = {} THEN 0
      ELSE CHOOSE t \in all : \A u \in all : Freq(u) < Freq(t) \/ (Freq(u) = Freq(t) /\ u <= t)

\* aws.CheckTimestampInArray: whether the timestamp is in the array, and where.
CheckTimestampInArray(timestamp, timestampArray) ==
  IF \E i \in 1..Len(timestampArray) : timestampArray[i] = timestamp
  THEN [exists |-> TRUE,
        idx |-> (CHOOSE i \in 1..Len(timestampArray) :
                   /\ timestampArray[i] = timestamp
                   /\ \A j \in 1..(i - 1) : timestampArray[j] # timestamp) - 1]
  ELSE [exists |-> FALSE, idx |-> -1]

\* aws.CheckTagFiltersExist: every key/value pair of the filter is among the tags.
CheckTagFiltersExist(tagsFilter, tags) ==
  \A i \in 1..Len(tagsFilter) :
    \E j \in 1..Len(tags) : tags[j].Key = tagsFilter[i].Key /\ tags[j].Value = tagsFilter[i].Value

\* aws.FindShortIdentifierFromARN: the text after the last ":" of the ARN.
FindShortIdentifierFromARN(resourceARN) == Last(Split(resourceARN, ":"))

\* resourceTagMap[v] of a Go map: the empty list when v is no key.
TagsOf(resourceTagMap, v) == IF v \in DOMAIN resourceTagMap THEN resourceTagMap[v] ELSE <<>>

RECURSIVE PutTags(_, _, _)
PutTags(fields, tags, i) ==
  IF i > Len(tags) THEN fields
  ELSE PutTags(Put(fields, TagsPrefix \o DeDot(tags[i].Key), tags[i].Value), tags, i + 1)

\* The tags InsertTags finds for one sub-identifier.
TagsForSubIdentifier(v, resourceTagMap) ==
  LET tags == TagsOf(resourceTagMap, v)
  IN  IF Len(tags) = 0 /\ HasPrefix(v, ArnPrefix)
      THEN TagsOf(resourceTagMap, FindShortIdentifierFromARN(v))
      ELSE tags

RECURSIVE InsertTagsLoop(_, _, _, _)
InsertTagsLoop(fields, subIdentifiers, resourceTagMap, i) ==
  IF i > Len(subIdentifiers) THEN fields
  ELSE InsertTagsLoop(PutTags(fields, TagsForSubIdentifier(subIdentifiers[i], resourceTagMap), 1),
                      subIdentifiers, resourceTagMap, i + 1)

InsertTags(events, identifier, resourceTagMap) ==
  [events EXCEPT ![identifier].RootFields =
     InsertTagsLoop(@, Split(identifier, dimensionSeparator), resourceTagMap, 1)]

\* The loop state of createEvents: the events map, the identifiers InitEvent
\* was called for, in order, and whether an index went out of range.
NoEvents == [events |-> EmptyMap, created |-> <<>>, panic |-> FALSE]

\* As the four places below, without the test whether the event exists.
InsertIntoEventAlwaysInit(st, identifier, regionName, timestamp, value, labels) ==
  LET ins == InsertRootFields(InitEvent(regionName, timestamp), value, labels)
  IN  IF ins.panic THEN [st EXCEPT !.panic = TRUE]
      ELSE [events |-> Put(st.events, identifier, ins.event),
            created |-> Append(st.created, identifier),
            panic |-> FALSE]

\* Lines 511-514, 519-522, 568-571 and 583-585: InitEvent unless the map holds
\* the identifier, then InsertRootFields into the event of the identifier.
InsertIntoEvent(st, identifier, regionName, timestamp, value, labels) ==
  LET isNew == identifier \notin DOMAIN st.events
      event == IF isNew THEN InitEvent(regionName, timestamp) ELSE st.events[identifier]
      ins == InsertRootFields(event, value, labels)
  IN  IF ins.panic THEN [st EXCEPT !.panic = TRUE]
      ELSE [events |-> Put(st.events, identifier, ins.event),
            created |-> IF isNew THEN Append(st.created, identifier) ELSE st.created,
            panic |-> FALSE]

\* The body of the loop of lines 500-524 for one result.
UntaggedResult(st, result, regionName, timestamp) ==
  IF st.panic \/ Len(result.Values) = 0 THEN st
  ELSE LET found == CheckTimestampInArray(timestamp, result.Timestamps)
           labels == Split(result.Label, labelSeparator)
       IN  IF ~found.exists THEN st
           ELSE IF Len(labels) # 5
           THEN InsertIntoEvent(st, regionName \o AccountID \o At(labels, namespaceIdx),
                                regionName, timestamp, At(result.Values, found.idx), labels)
           ELSE InsertIntoEvent(st, At(labels, identifierValueIdx),
                                regionName, timestamp, At(result.Values, found.idx), labels)

\* The test of line 580 without its condition on the tag filter.
TagGateSkipsWithoutFilter(tagsFilter, resourceTagMap, identifierValue) ==
  identifierValue \notin DOMAIN resourceTagMap

\* Line 580, the test that keeps an identifier without tags out of the events.
TagGateSkips(tagsFilter, resourceTagMap, identifierValue) ==
  Len(tagsFilter) # 0 /\ identifierValue \notin DOMAIN resourceTagMap

\* As TaggedResult, without the test of line 562 on the tag filter.
TaggedResultKeepsFallback(st, result, regionName, timestamp, tagsFilter, resourceTagMap) ==
  IF st.panic \/ Len(result.Values) = 0 THEN st
  ELSE LET found == CheckTimestampInArray(timestamp, result.Timestamps)
           labels == Split(result.Label, labelSeparator)
       IN  IF ~found.exists THEN st
           ELSE IF Len(labels) # 5
           THEN InsertIntoEvent(st, regionName \o AccountID \o At(labels, namespaceIdx),
                                regionName, timestamp, At(result.Values, found.idx), labels)
           ELSE LET identifierValue == At(labels, identifierValueIdx)
                IN  IF /\ identifierValue \notin DOMAIN st.events
                       /\ TagGateSkips(tagsFilter, resourceTagMap, identifierValue)
                    THEN st
                    ELSE LET next == InsertIntoEvent(st, identifierValue, regionName, timestamp,
                                                     At(result.Values, found.idx), labels)
                         IN  IF next.panic THEN next
                             ELSE [next EXCEPT
                                     !.events = InsertTags(@, identifierValue, resourceTagMap)]

\* The body of the loop of lines 552-590 for one result.
TaggedResult(st, result, regionName, timestamp, tagsFilter, resourceTagMap) ==
  IF st.panic \/ Len(result.Values) = 0 THEN st
  ELSE LET found == CheckTimestampInArray(timestamp, result.Timestamps)
           labels == Split(result.Label, labelSeparator)
       IN  IF ~found.exists THEN st
           ELSE IF Len(labels) # 5
           THEN IF Len(tagsFilter) # 0 THEN st
                ELSE InsertIntoEvent(st, regionName \o AccountID \o At(labels, namespaceIdx),
                                     regionName, timestamp, At(result.Values, found.idx), labels)
           ELSE LET identifierValue == At(labels, identifierValueIdx)
                IN  IF /\ identifierValue \notin DOMAIN st.events
                       /\ TagGateSkips(tagsFilter, resourceTagMap, identifierValue)
                    THEN st
                    ELSE LET next == InsertIntoEvent(st, identifierValue, regionName, timestamp,
                                                     At(result.Values, found.idx), labels)
                         IN  IF next.panic THEN next
                             ELSE [next EXCEPT
                                     !.events = InsertTags(@, identifierValue, resourceTagMap)]

RECURSIVE UntaggedLoop(_, _, _, _, _)
UntaggedLoop(st, metricDataResults, k, regionName, timestamp) ==
  IF k > Len(metricDataResults) THEN st
  ELSE UntaggedLoop(UntaggedResult(st, metricDataResults[k], regionName, timestamp),
                    metricDataResults, k + 1, regionName, timestamp)

RECURSIVE TaggedLoop(_, _, _, _, _, _, _)
TaggedLoop(st, metricDataResults, k, regionName, timestamp, tagsFilter, resourceTagMap) ==
  IF k > Len(metricDataResults) THEN st
  ELSE TaggedLoop(TaggedResult(st, metricDataResults[k], regionName, timestamp,
                               tagsFilter, resourceTagMap),
                  metricDataResults, k + 1, regionName, timestamp, tagsFilter, resourceTagMap)

\* Lines 543-550: the resources whose tags do not satisfy the filter are deleted.
FilterResourceTagMap(resourceTagMap, tagsFilter) ==
  [identifier \in {id \in DOMAIN resourceTagMap :
                     CheckTagFiltersExist(tagsFilter, resourceTagMap[id])} |->
     resourceTagMap[identifier]]

\* The loop of lines 529-591 over the resource types, taken in the order the
\* range over the Go map gives them. tagResults[resourceType] is what
\* aws.GetResourcesTags returned: an error with a nil map, or the map.
RECURSIVE ResourceTypeLoop(_, _, _, _, _, _, _)
ResourceTypeLoop(st, order, r, metricDataResults, regionName, timestamp, env) ==
  IF r > Len(order) \/ st.panic THEN st
  ELSE LET resourceType == order[r]
           tagsFilter == env.resourceTypeTagFilters[resourceType]
           resourceTagMap == IF env.tagResults[resourceType].err THEN EmptyMap
                             ELSE env.tagResults[resourceType].resourceTagMap
       IN  ResourceTypeLoop(
             IF Len(tagsFilter) # 0 /\ DOMAIN resourceTagMap = {}
             THEN st
             ELSE TaggedLoop(st, metricDataResults, 1, regionName, timestamp, tagsFilter,
                             FilterResourceTagMap(resourceTagMap, tagsFilter)),
             order, r + 1, metricDataResults, regionName, timestamp, env)

\* The results aws.GetMetricDataResults returns for the queries: one per query,
\* with the label of the query and the time series the service holds for it.
\* The value of a data point is taken to be its timestamp.
MetricDataResults(metricDataQueries, series) ==
  [k \in 1..Len(metricDataQueries) |->
     [Label |-> metricDataQueries[k].Label, Timestamps |-> series[k], Values |-> series[k]]]

\* createEvents. env holds what the external calls return in this call:
\* getMetricDataErr and series for aws.GetMetricDataResults, tagResults for
\* aws.GetResourcesTags per resource type, order for the range over
\* resourceTypeTagFilters. The result holds the returned events and error, and
\* for the claims the InitEvent calls, whether the call panicked, and which
\* external calls were made.
createEvents(listMetricWithStatsTotal, resourceTypeTagFilters, regionName, env) ==
  LET metricDataQueries == CreateMetricDataQueries(listMetricWithStatsTotal)
      metricDataResults == MetricDataResults(metricDataQueries, env.series)
      timestamp == FindTimestamp(metricDataResults)
      Result(st, err, step, ts) ==
        [events |-> st.events, created |-> st.created, panic |-> st.panic, err |-> err,
         timestamp |-> ts, step |-> step]
  IN  IF Len(metricDataQueries) = 0 THEN Result(NoEvents, FALSE, "no_queries", 0)
      ELSE IF env.getMetricDataErr THEN Result(NoEvents, TRUE, "get_metric_data_failed", 0)
      ELSE IF timestamp = 0 THEN Result(NoEvents, FALSE, "no_timestamp", 0)
      ELSE IF DOMAIN resourceTypeTagFilters = {}
      THEN Result(UntaggedLoop(NoEvents, metricDataResults, 1, regionName, timestamp),
                  FALSE, "untagged", timestamp)
      ELSE Result(ResourceTypeLoop(NoEvents, env.order, 1, metricDataResults, regionName,
                                   timestamp,
                                   [resourceTypeTagFilters |-> resourceTypeTagFilters,
                                    tagResults |-> env.tagResults]),
                  FALSE, "tagged", timestamp)

(***************************************************************************)
(* The values the checked instances are drawn from.                        *)
(***************************************************************************)
NsE == <<"A", "/", "E">>
NsS == <<"A", "/", "S">>
NsM == <<"A", "/", "M">>
RtE == <<"e", "c", "2">>
RtS == <<"s", "3">>

Dim(name, value) == [Name |-> name, Value |-> value]

IdleFetch ==
  /\ regionIdx = 0
  /\ nsTodo = {}
  /\ reported = {}
  /\ inits = <<>>
  /\ attempted = {}

fetchVars == <<regionIdx, nsTodo, reported, inits, attempted>>

(***************************************************************************)
(* CompareAWSDimensions on every pair of dimension lists.                  *)
(***************************************************************************)
CompareDims == [Name : {<<"A">>, <<"B">>}, Value : {<<"x">>, <<"y">>, dimensionValueWildcard}]

InitCompare ==
  /\ pc = "compare_call"
  /\ arg \in [dim1 : SeqUpTo(CompareDims, MaxDims), dim2 : SeqUpTo(CompareDims, MaxDims)]
  /\ ret = [result |-> FALSE, swapped |-> FALSE]
  /\ IdleFetch

\* The comparison is called on (dim1, dim2) and on (dim2, dim1).
CallCompare ==
  /\ pc = "compare_call"
  /\ ret' = [result |-> CompareAWSDimensions(arg.dim1, arg.dim2),
             swapped |-> CompareAWSDimensions(arg.dim2, arg.dim1)]
  /\ pc' = "compare_done"
  /\ UNCHANGED <<arg, fetchVars>>

NextCompare == CallCompare

SpecCompare == InitCompare /\ [][NextCompare]_vars

(***************************************************************************)
(* CreateMetricDataQueries on lists of metrics with statistics.            *)
(***************************************************************************)
QueryMetricMenu ==
  {[CloudwatchMetric |-> [Namespace |-> NsE, MetricName |-> <<"c">>,
                          Dimensions |-> <<Dim(<<"I">>, <<"x">>)>>],
    Statistic |-> <<Sum>>],
   [CloudwatchMetric |-> [Namespace |-> NsE, MetricName |-> <<"n">>, Dimensions |-> <<>>],
    Statistic |-> <<Average, Maximum>>]}

InitQueries ==
  /\ pc = "queries_call"
  /\ arg \in [listMetricsTotal : SeqUpTo(QueryMetricMenu, MaxMetrics)]
  /\ ret = <<>>
  /\ IdleFetch

CallCreateMetricDataQueries ==
  /\ pc = "queries_call"
  /\ ret' = CreateMetricDataQueries(arg.listMetricsTotal)
  /\ pc' = "queries_done"
  /\ UNCHANGED <<arg, fetchVars>>

NextQueries == CallCreateMetricDataQueries

SpecQueries == InitQueries /\ [][NextQueries]_vars

(***************************************************************************)
(* ConstructLabel, and the decoding of its label by strings.Split and      *)
(* InsertRootFields.                                                       *)
(***************************************************************************)
LabelMetricNames == {<<"c">>, <<"c", "|", "u">>}
LabelDims == [Name : {<<"I">>, <<"T">>}, Value : {<<"x">>, <<"y">>, <<"x", ",", "y">>}]

InitLabel ==
  /\ pc = "label_call"
  /\ arg \in [metric : [Namespace : {NsE}, MetricName : LabelMetricNames,
                        Dimensions : SeqUpTo(LabelDims, MaxLabelDims)],
              statistic : {Average, <<"p", "9">>}]
  /\ ret = [label |-> <<>>]
  /\ IdleFetch

CallConstructLabel ==
  /\ pc = "label_call"
  /\ ret' = [label |-> ConstructLabel(arg.metric, arg.statistic)]
  /\ pc' = "label_built"
  /\ UNCHANGED <<arg, fetchVars>>

\* What createEvents does with the label of a result: split, then InsertRootFields.
DecodeLabel ==
  /\ pc = "label_built"
  /\ LET labels == Split(ret.label, labelSeparator)
     IN  ret' = [label |-> ret.label,
                 labels |-> labels,
                 inserted |-> InsertRootFields(InitEvent(<<"r">>, 1), 1, labels)]
  /\ pc' = "label_decoded"
  /\ UNCHANGED <<arg, fetchVars>>

NextLabel == CallConstructLabel \/ DecodeLabel

SpecLabel == InitLabel /\ [][NextLabel]_vars

(***************************************************************************)
(* readCloudwatchConfig on lists of configuration entries.                 *)
(***************************************************************************)
ConfigMenu ==
  [Namespace : {NsE, NsS},
   MetricName : {NilSlice, Slice(<<(<<"c">>)>>), Slice(<<(<<"c">>), (<<"n">>)>>)},
   Dimensions : {NilSlice,
                 Slice(<<Dim(<<"I">>, <<"x">>)>>),
                 Slice(<<Dim(<<"I">>, dimensionValueWildcard)>>),
                 Slice(<<Dim(<<"I">>, <<"x">>), Dim(<<"T">>, dimensionValueWildcard)>>)},
   ResourceType : {RtE},
   Statistic : {NilSlice}]

InitConfig ==
  /\ pc = "config_call"
  /\ arg \in [CloudwatchConfigs : SeqUpTo(ConfigMenu, MaxConfigs) \ {<<>>},
              TagsFilter : {<<>>}]
  /\ ret = <<>>
  /\ IdleFetch

CallReadCloudwatchConfig ==
  /\ pc = "config_call"
  /\ ret' = readCloudwatchConfig(arg.CloudwatchConfigs, arg.TagsFilter)
  /\ pc' = "config_done"
  /\ UNCHANGED <<arg, fetchVars>>

NextConfig == CallReadCloudwatchConfig

SpecConfig == InitConfig /\ [][NextConfig]_vars

(***************************************************************************)
(* FilterListMetricsOutput on a listed catalog and the specs of a          *)
(* namespace, the specs being those readCloudwatchConfig can build.        *)
(***************************************************************************)
ListedMenu ==
  [Namespace : {NsE}, MetricName : {<<"c">>, <<"n">>},
   Dimensions : {<<Dim(<<"I">>, <<"x">>)>>, <<Dim(<<"I">>, <<"y">>)>>}]

FilterConfigMenu ==
  [Namespace : {NsE},
   MetricName : {NilSlice, Slice(<<(<<"c">>)>>)},
   Dimensions : {NilSlice,
                 Slice(<<Dim(<<"I">>, <<"x">>)>>),
                 Slice(<<Dim(<<"I">>, dimensionValueWildcard)>>)},
   ResourceType : {<<>>},
   Statistic : {NilSlice, Slice(<<Sum>>)}]

DetailMenu == {NamespaceDetailOf(c, <<>>) : c \in {c \in FilterConfigMenu : ~IsExactEntry(c)}}

InitFilter ==
  /\ pc = "filter_call"
  /\ arg \in [listMetricsOutput : SeqUpTo(ListedMenu, MaxListed),
              namespaceDetails : SeqUpTo(DetailMenu, MaxSpecs)]
  /\ ret = <<>>
  /\ IdleFetch

CallFilterListMetricsOutput ==
  /\ pc = "filter_call"
  /\ ret' = FilterListMetricsOutput(arg.listMetricsOutput, arg.namespaceDetails)
  /\ pc' = "filter_done"
  /\ UNCHANGED <<arg, fetchVars>>

NextFilter == CallFilterListMetricsOutput

SpecFilter == InitFilter /\ [][NextFilter]_vars

(***************************************************************************)
(* Fetch. One action per pass of its two loops: the createEvents call of a *)
(* region on the exact-mode metrics, and the body of the loop over the     *)
(* namespaces of a region. What the external calls return is chosen in     *)
(* each pass.                                                              *)
(***************************************************************************)
Tag(key, value) == [Key |-> key, Value |-> value]
EnvProd == Tag(<<"e", "n", "v">>, <<"p", "r", "o", "d">>)
EnvDev == Tag(<<"e", "n", "v">>, <<"d", "e", "v">>)
OwnerTag == Tag(<<"o", ".", "k">>, <<"v">>)
ArnZ == ArnPrefix \o <<"z">>
\* A metric name that holds the label separator.
PipeName == <<"c", "|", "u">>

Metric(namespace, name, dims) == [Namespace |-> namespace, MetricName |-> name, Dimensions |-> dims]

\* What ListMetrics holds for a namespace.
Catalog(namespace) ==
  CASE namespace = NsE -> <<Metric(NsE, <<"c">>, <<Dim(<<"I">>, <<"x">>)>>),
                            Metric(NsE, <<"c">>, <<Dim(<<"I">>, <<"y">>)>>),
                            Metric(NsE, <<"n">>, <<>>)>>
    [] namespace = NsS -> <<Metric(NsS, <<"c">>, <<Dim(<<"T">>, <<"s">>), Dim(<<"B">>, <<"b">>)>>),
                            Metric(NsS, <<"c">>, <<Dim(<<"R">>, ArnZ)>>)>>
    [] namespace = NsM -> <<Metric(NsM, PipeName, <<>>),
                            Metric(NsM, PipeName, <<Dim(<<"I">>, <<"x">>)>>),
                            Metric(NsM, <<"c">>, <<Dim(<<"I">>, <<"y">>)>>)>>
    [] OTHER -> <<>>

\* What the tagging API holds for a resource type, keyed by short identifier.
TagDB(resourceType) ==
  CASE resourceType = RtE -> (<<"x">> :> <<EnvProd>>) @@ (<<"y">> :> <<EnvDev>>)
    [] resourceType = RtS -> (<<"b">> :> <<EnvProd, OwnerTag>>) @@ (<<"z">> :> <<EnvProd>>)
    [] OTHER -> EmptyMap

\* The time series a query can come back with, the most recent point first.
SeriesOfQuery == {<<>>, <<2>>, <<1>>, <<2, 1>>}

SeriesChoices(n, rich) ==
  IF rich THEN [1..n -> SeriesOfQuery]
  ELSE {[k \in 1..n |-> <<2>>], [k \in 1..n |-> <<>>]}

TagResult(resourceType, ok) ==
  IF ok THEN [err |-> FALSE, resourceTagMap |-> TagDB(resourceType)]
  ELSE [err |-> TRUE, resourceTagMap |-> EmptyMap]

Orders(S) == {o \in [1..Cardinality(S) -> S] : \A a, b \in 1..Cardinality(S) : a # b => o[a] # o[b]}

\* What the external calls of one createEvents call can return.
Envs(listMetricWithStatsTotal, resourceTypeTagFilters, rich) ==
  LET n == Len(CreateMetricDataQueries(listMetricWithStatsTotal))
      types == DOMAIN resourceTypeTagFilters
  IN  {[getMetricDataErr |-> TRUE, series |-> <<>>, tagResults |-> EmptyMap, order |-> <<>>]}
      \cup {[getMetricDataErr |-> FALSE,
             series |-> series,
             tagResults |-> [t \in types |-> TagResult(t, oks[t])],
             order |-> order] :
              series \in SeriesChoices(n, rich), oks \in [types -> BOOLEAN], order \in Orders(types)}

Cfg == readCloudwatchConfig(arg.CloudwatchConfigs, arg.TagsFilter)

Pass(phase, r, namespace) == [phase |-> phase, regionIdx |-> r, namespace |-> namespace]

Control(p, r, todo) == [pc |-> p, regionIdx |-> r, nsTodo |-> todo]

\* Where Fetch goes after the exact-mode pass of region r.
AfterExact(r) ==
  IF r < Len(arg.RegionsList) THEN Control("fetch_exact", r + 1, {})
  ELSE IF DOMAIN Cfg.namespaceDetailTotal = {} THEN Control("fetch_returned", r, {})
  ELSE Control("fetch_discovery", 1, DOMAIN Cfg.namespaceDetailTotal)

\* Where Fetch goes after the pass of a namespace of region r.
AfterNamespace(r, namespace) ==
  IF nsTodo \ {namespace} # {} THEN Control("fetch_discovery", r, nsTodo \ {namespace})
  ELSE IF r < Len(arg.RegionsList)
  THEN Control("fetch_discovery", r + 1, DOMAIN Cfg.namespaceDetailTotal)
  ELSE Control("fetch_returned", r, {})

\* The events of a finished createEvents call as report.Event gets them.
Reports(pass, out) ==
  {[pass |-> pass, identity |-> id, event |-> out.events[id]] : id \in DOMAIN out.events}

Call(pass, list, filters, env, out) ==
  [pass |-> pass, listMetricWithStatsTotal |-> list, resourceTypeTagFilters |-> filters,
   env |-> env, out |-> out]

NoCall == [fetchErr |-> FALSE, panicked |-> FALSE, last |-> <<>>]

\* Lines 127-147: checkStatistics and readCloudwatchConfig.
FetchStart ==
  /\ pc = "fetch_start"
  /\ LET ctl == IF ~checkStatistics(arg.CloudwatchConfigs) THEN Control("fetch_returned", 0, {})
                ELSE IF Len(Cfg.listMetricDetailTotal.MetricsWithStats) # 0
                THEN Control("fetch_exact", 1, {})
                ELSE AfterExact(Len(arg.RegionsList))
     IN  /\ pc' = ctl.pc
         /\ regionIdx' = ctl.regionIdx
         /\ nsTodo' = ctl.nsTodo
         /\ ret' = [NoCall EXCEPT !.fetchErr = ~checkStatistics(arg.CloudwatchConfigs)]
  /\ UNCHANGED <<arg, reported, inits, attempted>>

\* What a createEvents call leaves behind: lines 160-169 and 201-216.
Finish(pass, list, filters, env, out, next) ==
  LET ctl == IF out.panic THEN Control("fetch_panicked", regionIdx, {})
             ELSE IF out.err THEN Control("fetch_returned", regionIdx, {})
             ELSE next
  IN  /\ pc' = ctl.pc
      /\ regionIdx' = ctl.regionIdx
      /\ nsTodo' = ctl.nsTodo
      /\ ret' = [fetchErr |-> out.err, panicked |-> out.panic,
                 last |-> <<Call(pass, list, filters, env, out)>>]
      /\ reported' = IF out.panic \/ out.err THEN reported ELSE reported \cup Reports(pass, out)
      /\ inits' = Append(inits, out.created)
      /\ attempted' = attempted \cup {pass}
      /\ UNCHANGED arg

\* One iteration of the loop of lines 150-170.
FetchExactRegion(rich) ==
  /\ pc = "fetch_exact"
  /\ LET list == Cfg.listMetricDetailTotal.MetricsWithStats
         filters == Cfg.listMetricDetailTotal.ResourceTypeFilters
     IN  \E env \in Envs(list, filters, rich) :
           Finish(Pass("exact", regionIdx, <<>>), list, filters, env,
                  createEvents(list, filters, arg.RegionsList[regionIdx], env),
                  AfterExact(regionIdx))

\* One iteration of the loop of lines 183-217, for a namespace the range over
\* namespaceDetailTotal has not given yet: ListMetrics fails or lists nothing
\* (continue), or lists the catalog.
FetchNamespace(rich) ==
  /\ pc = "fetch_discovery"
  /\ \E namespace \in nsTodo :
       LET pass == Pass("discovery", regionIdx, namespace)
           namespaceDetails == Cfg.namespaceDetailTotal[namespace]
           next == AfterNamespace(regionIdx, namespace)
       IN  \/ \E listErr \in BOOLEAN :
                /\ pc' = next.pc
                /\ regionIdx' = next.regionIdx
                /\ nsTodo' = next.nsTodo
                /\ ret' = [NoCall EXCEPT !.last = <<[pass |-> pass, listErr |-> listErr]>>]
                /\ attempted' = attempted \cup {pass}
                /\ UNCHANGED <<arg, reported, inits>>
           \/ /\ Len(Catalog(namespace)) # 0
              /\ LET list == FilterListMetricsOutput(Catalog(namespace), namespaceDetails)
                     filters == ConstructTagsFilters(namespaceDetails)
                 IN  \E env \in Envs(list, filters, rich) :
                       Finish(pass, list, filters, env,
                              createEvents(list, filters, arg.RegionsList[regionIdx], env),
                              next)

(***************************************************************************)
(* Fetch over several regions, every query of a pass coming back with the  *)
(* latest point or every query with none.                                  *)
(***************************************************************************)
R1 == <<"r", "1">>
R2 == <<"r", "2">>
R3 == <<"r", "3">>
Regions == <<R1, R2, R3, <<"r", "4">>, <<"r", "5">>>>

Entry(namespace, names, dims, resourceType, statistic) ==
  [Namespace |-> namespace, MetricName |-> names, Dimensions |-> dims,
   ResourceType |-> resourceType, Statistic |-> statistic]

\* An exact entry and a discovery entry that cover the same instance.
ConfigExactAndDiscovery ==
  <<Entry(NsE, Slice(<<(<<"c">>)>>), Slice(<<Dim(<<"I">>, <<"x">>)>>), RtE, Slice(<<Sum, Average>>)),
    Entry(NsE, Slice(<<(<<"c">>)>>), NilSlice, <<>>, Slice(<<Sum>>))>>

\* Discovery of two namespaces, each with a resource type.
ConfigTwoNamespaces ==
  <<Entry(NsE, NilSlice, NilSlice, RtE, Slice(<<Sum>>)),
    Entry(NsS, NilSlice, NilSlice, RtS, Slice(<<Sum>>))>>

\* Two specs of one namespace with different resource types.
ConfigTwoResourceTypes ==
  <<Entry(NsE, Slice(<<(<<"c">>)>>), Slice(<<Dim(<<"I">>, dimensionValueWildcard)>>), RtE,
          Slice(<<Sum>>)),
    Entry(NsE, Slice(<<(<<"n">>)>>), NilSlice, RtS, Slice(<<Sum>>))>>

\* Discovery of a namespace without a resource type.
ConfigNoResourceType ==
  <<Entry(NsE, NilSlice, NilSlice, <<>>, Slice(<<Sum>>))>>

TagsFilters == {<<>>, <<EnvProd>>}

InitFetch ==
  /\ pc = "fetch_start"
  /\ arg \in [CloudwatchConfigs : {ConfigExactAndDiscovery, ConfigTwoNamespaces},
              TagsFilter : TagsFilters,
              RegionsList : {SubSeq(Regions, 1, n) : n \in 1..MaxRegions}]
  /\ ret = NoCall
  /\ IdleFetch

NextFetch == FetchStart \/ FetchExactRegion(FALSE) \/ FetchNamespace(FALSE)

SpecFetch == InitFetch /\ [][NextFetch]_vars

(***************************************************************************)
(* Fetch on one region, every query coming back with any of the series.    *)
(***************************************************************************)
InitPass ==
  /\ pc = "fetch_start"
  /\ arg \in [CloudwatchConfigs : {ConfigExactAndDiscovery, ConfigTwoNamespaces,
                                   ConfigTwoResourceTypes, ConfigNoResourceType},
              TagsFilter : TagsFilters,
              RegionsList : {<<R1>>}]
  /\ ret = NoCall
  /\ IdleFetch

NextPass == FetchStart \/ FetchExactRegion(TRUE) \/ FetchNamespace(TRUE)

SpecPass == InitPass /\ [][NextPass]_vars

(***************************************************************************)
(* Claims about the label, the configuration, the filter, the comparison   *)
(* and the queries.                                                        *)
(***************************************************************************)
\* The dimension fields an event must hold for a dimension list: for each name,
\* the value of its last entry.
DimensionFieldsOf(dims) ==
  [key \in {DimensionsPrefix \o dims[i].Name : i \in 1..Len(dims)} |->
     dims[CHOOSE i \in 1..Len(dims) :
            /\ DimensionsPrefix \o dims[i].Name = key
            /\ \A j \in (i + 1)..Len(dims) : dims[j].Name # dims[i].Name].Value]

DimensionFieldsIn(fields) ==
  [key \in {k \in DOMAIN fields : HasPrefix(k, DimensionsPrefix)} |-> fields[key]]

\* C5: label round trip. Splitting the label ConstructLabel built gives back the
\* metric name, the namespace and the statistic; when the metric has
\* dimensions, the 4th and 5th fields split into the dimension names and
\* values in the original order, and InsertRootFields writes exactly the
\* aws.dimensions.<name> = value entries of the original dimensions.
C5_LabelRoundTrip ==
  pc = "label_decoded" =>
    LET dims == arg.metric.Dimensions
    IN  /\ Len(ret.labels) >= 3
        /\ ret.labels[1] = arg.metric.MetricName
        /\ ret.labels[2] = arg.metric.Namespace
        /\ ret.labels[3] = arg.statistic
        /\ dims = <<>> => Len(ret.labels) = 3
        /\ dims # <<>> =>
             /\ Len(ret.labels) = 5
             /\ Split(ret.labels[4], dimensionSeparator) = [i \in 1..Len(dims) |-> dims[i].Name]
             /\ Split(ret.labels[5], dimensionSeparator) = [i \in 1..Len(dims) |-> dims[i].Value]
             /\ ~ret.inserted.panic
             /\ DimensionFieldsIn(ret.inserted.event.RootFields) = DimensionFieldsOf(dims)

\* What C6 calls an exact-mode entry: metric names and dimensions are given and
\* no dimension value is the wildcard.
GivenExact(config) ==
  /\ config.MetricName.nil = FALSE
  /\ config.Dimensions.nil = FALSE
  /\ \A i \in 1..Len(config.Dimensions.items) : config.Dimensions.items[i].Value # <<"*">>

\* C6: routing in readCloudwatchConfig. An entry is routed to exact mode iff it
\* gives metric names and dimensions and no dimension value is "*"; an exact
\* entry yields one metric request per metric name and no discovery spec, every
\* other entry yields one discovery spec appended to its namespace's list and
\* no metric request.
C6_ConfigRouting ==
  pc = "config_done" =>
    LET configs == arg.CloudwatchConfigs
        requests == ret.listMetricDetailTotal.MetricsWithStats
        details == ret.namespaceDetailTotal
        exact == {i \in 1..Len(configs) : GivenExact(configs[i])}
        other == (1..Len(configs)) \ exact
    IN  /\ \A ns \in {NsE, NsS} : \A name \in {<<"c">>, <<"n">>} :
             Cardinality({k \in 1..Len(requests) :
                            /\ requests[k].CloudwatchMetric.Namespace = ns
                            /\ requests[k].CloudwatchMetric.MetricName = name})
             = Cardinality({p \in UNION {{<<i, j>> : j \in 1..Len(configs[i].MetricName.items)} :
                                            i \in exact} :
                              /\ configs[p[1]].Namespace = ns
                              /\ configs[p[1]].MetricName.items[p[2]] = name})
        /\ \A k \in 1..Len(requests) :
             \E i \in exact :
               /\ requests[k].CloudwatchMetric.Dimensions = configs[i].Dimensions.items
               /\ requests[k].CloudwatchMetric.Namespace = configs[i].Namespace
        /\ DOMAIN details = {configs[i].Namespace : i \in other}
        /\ \A ns \in DOMAIN details :
             LET mine == {i \in other : configs[i].Namespace = ns}
             IN  /\ Len(details[ns]) = Cardinality(mine)
                 /\ \A i \in mine :
                      LET pos == Cardinality({h \in mine : h <= i})
                      IN  /\ details[ns][pos].Names = configs[i].MetricName
                          /\ details[ns][pos].Dimensions.items = configs[i].Dimensions.items

\* The name-to-value mapping of a dimension list, as a set of pairs.
MappingOf(dims) ==
  {<<dims[i].Name, dims[i].Value>> :
     i \in {i \in 1..Len(dims) : \A j \in (i + 1)..Len(dims) : dims[j].Name # dims[i].Name}}

\* spec with every wildcard value replaced by the discovered value of the same
\* dimension name, where discovered has that name.
ResolveWildcards(spec, discovered) ==
  [i \in 1..Len(spec) |->
     IF spec[i].Value = <<"*">> /\ \E k \in 1..Len(discovered) : discovered[k].Name = spec[i].Name
     THEN [Name |-> spec[i].Name,
           Value |-> (CHOOSE pair \in MappingOf(discovered) : pair[1] = spec[i].Name)[2]]
     ELSE spec[i]]

DimensionsMatch(discovered, spec) ==
  /\ Len(discovered) = Len(spec)
  /\ MappingOf(discovered) = MappingOf(ResolveWildcards(spec, discovered))

\* The four-case policy of C7 for one discovered metric and one spec.
PolicyKeeps(metric, spec) ==
  LET hasNames == spec.Names.nil = FALSE
      hasDims == spec.Dimensions.nil = FALSE
      nameIn == metric.MetricName \in Range(spec.Names.items)
      dimsOk == DimensionsMatch(metric.Dimensions, spec.Dimensions.items)
  IN  CASE hasNames /\ ~hasDims -> nameIn
        [] ~hasNames /\ hasDims -> dimsOk
        [] hasNames /\ hasDims -> nameIn /\ dimsOk
        [] OTHER -> TRUE

\* C7: FilterListMetricsOutput keeps a metric for a spec exactly by the
\* four-case policy, every spec against every metric, and its output holds one
\* entry per accepting (metric, spec) pair, carrying that spec's statistics and
\* ordered by metric, then by spec.
C7_FilterPolicy ==
  pc = "filter_done" =>
    LET listed == arg.listMetricsOutput
        specs == arg.namespaceDetails
        pairs == {<<i, j>> \in (1..Len(listed)) \X (1..Len(specs)) :
                    PolicyKeeps(listed[i], specs[j])}
        Before(p, q) == p[1] < q[1] \/ (p[1] = q[1] /\ p[2] <= q[2])
    IN  /\ Len(ret) = Cardinality(pairs)
        /\ \A p \in pairs :
             LET pos == Cardinality({q \in pairs : Before(q, p)})
             IN  /\ ret[pos].CloudwatchMetric = listed[p[1]]
                 /\ ret[pos].Statistic = specs[p[2]].Statistics

\* C8: CompareAWSDimensions(discovered, spec) is true iff both lists have the
\* same number of entries and, with every wildcard of spec replaced by the
\* discovered value of the same name, both give the same name-to-value
\* mapping; it is true for ({A:x},{A:*}), false for ({A:x},{A:y}) and for
\* ({A:x,B:y},{A:x}).
C8_CompareMatchesMappings ==
  /\ pc = "compare_done" => ret.result = DimensionsMatch(arg.dim1, arg.dim2)
  /\ CompareAWSDimensions(<<Dim(<<"A">>, <<"x">>)>>, <<Dim(<<"A">>, <<"*">>)>>)
  /\ ~CompareAWSDimensions(<<Dim(<<"A">>, <<"x">>)>>, <<Dim(<<"A">>, <<"y">>)>>)
  /\ ~CompareAWSDimensions(<<Dim(<<"A">>, <<"x">>), Dim(<<"B">>, <<"y">>)>>,
                           <<Dim(<<"A">>, <<"x">>)>>)

HasWildcard(dims) == \E i \in 1..Len(dims) : dims[i].Value = <<"*">>

\* C9 as stated: for all dimension lists, a wildcard allowed in either, the
\* comparison gives the same result with its arguments swapped.
C9_CompareCommutes ==
  pc = "compare_done" => ret.result = ret.swapped

\* C9 amended: for dimension lists holding no wildcard value, the comparison
\* gives the same result with its arguments swapped.
C9_CompareCommutesWithoutWildcard ==
  (pc = "compare_done" /\ ~HasWildcard(arg.dim1) /\ ~HasWildcard(arg.dim2)) =>
    ret.result = ret.swapped

RECURSIVE StatisticsBefore(_, _)
StatisticsBefore(listMetricsTotal, i) ==
  IF i <= 1 THEN 0
  ELSE Len(listMetricsTotal[i - 1].Statistic) + StatisticsBefore(listMetricsTotal, i - 1)

\* C10: the queries CreateMetricDataQueries builds have pairwise different ids,
\* and there is exactly one query per (metric index, statistic index) pair.
C10_QueryIdsUnique ==
  pc = "queries_done" =>
    LET list == arg.listMetricsTotal
    IN  /\ \A a, b \in 1..Len(ret) : a # b => ret[a].Id # ret[b].Id
        /\ Len(ret) = StatisticsBefore(list, Len(list) + 1)
        /\ \A i \in 1..Len(list) : \A j \in 1..Len(list[i].Statistic) :
             LET q == ret[StatisticsBefore(list, i) + j]
             IN  /\ q.Metric = list[i].CloudwatchMetric
                 /\ q.Stat = list[i].Statistic[j]

(***************************************************************************)
(* Claims about Fetch and createEvents.                                    *)
(***************************************************************************)
\* The passes Fetch has to make for the configuration and the regions.
AllPasses ==
  {Pass("exact", r, <<>>) :
     r \in IF Len(Cfg.listMetricDetailTotal.MetricsWithStats) # 0
           THEN 1..Len(arg.RegionsList) ELSE {}}
  \cup {Pass("discovery", r, namespace) :
          r \in 1..Len(arg.RegionsList), namespace \in DOMAIN Cfg.namespaceDetailTotal}

\* C1: a failing external call of one region or namespace never blocks the
\* others. When Fetch returns, every pass of every region and namespace was
\* made, whatever calls failed before it.
C1_FailureNeverBlocksOthers ==
  pc = "fetch_returned" => \A pass \in AllPasses : pass \in attempted

\* C2 as stated: over all passes of one invocation in a region (the exact-mode
\* pass and the discovery passes of its namespaces), no two reported events
\* carry the same identity.
C2_IdentityOncePerInvocation ==
  \A e1, e2 \in reported :
    (e1.identity = e2.identity /\ e1.pass.regionIdx = e2.pass.regionIdx) => e1 = e2

\* The createEvents call of the last pass, when that pass got to make it.
LastCall == ret.last[1]
HasLastCall == ret.last # <<>> /\ "out" \in DOMAIN ret.last[1]

\* The results of the last call that have a value at the alignment timestamp,
\* each with its split label and the identity createEvents groups it under.
ResultsAtTimestamp ==
  LET queries == CreateMetricDataQueries(LastCall.listMetricWithStatsTotal)
      regionName == arg.RegionsList[LastCall.pass.regionIdx]
  IN  {[labels |-> Split(queries[k].Label, "|"),
        identity |-> IF Len(Split(queries[k].Label, "|")) = 5
                     THEN Split(queries[k].Label, "|")[5]
                     ELSE regionName \o AccountID \o Split(queries[k].Label, "|")[2]] :
         k \in {k \in 1..Len(queries) :
                  LastCall.out.timestamp \in Range(LastCall.env.series[k])}}

NoDuplicates(seq) == \A a, b \in 1..Len(seq) : a # b => seq[a] # seq[b]

\* C2 amended: within one createEvents call (one pass of Fetch) an event is
\* created at most once per identity, and every later field insertion for the
\* identity goes into that one event; the events of different passes are
\* separate.
C2_IdentityOncePerPass ==
  /\ \A k \in 1..Len(inits) : NoDuplicates(inits[k])
  /\ \A e1, e2 \in reported : (e1.identity = e2.identity /\ e1.pass = e2.pass) => e1 = e2
  /\ (HasLastCall /\ LastCall.out.step \in {"untagged", "tagged"}) =>
       /\ Range(LastCall.out.created) = DOMAIN LastCall.out.events
       /\ \A res \in ResultsAtTimestamp :
            res.identity \in DOMAIN LastCall.out.events =>
              GenerateFieldName(res.labels[2], res.labels)
                \in DOMAIN LastCall.out.events[res.identity].RootFields

TagFieldsIn(fields) == {k \in DOMAIN fields : HasPrefix(k, TagsPrefix)}

\* The resources of the sub-identifiers of an identity, as InsertTags looks
\* them up: the sub-identifier, and for an ARN its short identifier.
ResourcesOf(identity) ==
  UNION {{v} \cup (IF HasPrefix(v, ArnPrefix) THEN {FindShortIdentifierFromARN(v)} ELSE {}) :
           v \in Range(Split(identity, ","))}

\* The tags fetched in the last call, over its resource types.
FetchedTags ==
  LET results == LastCall.env.tagResults
  IN  {[resource |-> id, tags |-> results[t].resourceTagMap[id]] :
         <<t, id>> \in UNION {{<<t, id>> : id \in DOMAIN results[t].resourceTagMap} :
                                t \in DOMAIN results}}

\* C3: tag gating. With a non-empty tag filter, a resource whose fetched tags
\* do not satisfy it appears in no event, and every resource whose fetched
\* tags satisfy it and that has a value at the alignment timestamp has an
\* event carrying aws.tags.<key> for each of its tags; for single, composite
\* and ARN identifiers.
C3_TagGating ==
  (HasLastCall /\ LastCall.out.step = "tagged" /\ arg.TagsFilter # <<>>) =>
    \A f \in FetchedTags :
      IF CheckTagFiltersExist(arg.TagsFilter, f.tags)
      THEN \A res \in ResultsAtTimestamp :
             (Len(res.labels) = 5 /\ f.resource \in ResourcesOf(res.identity)) =>
               /\ res.identity \in DOMAIN LastCall.out.events
               /\ \A i \in 1..Len(f.tags) :
                    LET key == TagsPrefix \o DeDot(f.tags[i].Key)
                        fields == LastCall.out.events[res.identity].RootFields
                    IN  key \in DOMAIN fields /\ fields[key] = f.tags[i].Value
      ELSE \A id \in DOMAIN LastCall.out.events : f.resource \notin ResourcesOf(id)

AllTagLookupsFailed ==
  \A t \in DOMAIN LastCall.env.tagResults : LastCall.env.tagResults[t].err

SomeTagLookupFailed ==
  \E t \in DOMAIN LastCall.env.tagResults : LastCall.env.tagResults[t].err

C2_Witness ==
  /\ pc = "fetch_returned"
  /\ \E e1, e2 \in reported :
       /\ e1.identity = e2.identity
       /\ e1.pass.phase = "exact" /\ e2.pass.phase = "discovery"
       /\ e1.pass.regionIdx = e2.pass.regionIdx
       /\ Cardinality(DOMAIN e1.event.RootFields) > Cardinality(DOMAIN e2.event.RootFields)
  /\ \E k \in 1..Len(inits) : Len(inits[k]) = 2

C6_Witness ==
  /\ pc = "config_done"
  /\ Len(ret.listMetricDetailTotal.MetricsWithStats) = 2
  /\ \E ns \in DOMAIN ret.namespaceDetailTotal : Len(ret.namespaceDetailTotal[ns]) = 1
  /\ \E i \in 1..Len(arg.CloudwatchConfigs) :
       /\ ~arg.CloudwatchConfigs[i].MetricName.nil
       /\ HasWildcard(arg.CloudwatchConfigs[i].Dimensions.items)

C7_Witness ==
  /\ pc = "filter_done"
  /\ Len(arg.listMetricsOutput) = 2
  /\ Len(arg.namespaceDetails) = 2
  /\ \E k \in 1..(Len(ret) - 1) :
       /\ ret[k].CloudwatchMetric = ret[k + 1].CloudwatchMetric
       /\ ret[k].Statistic # ret[k + 1].Statistic
  /\ Len(ret) < 4
  /\ \E j \in 1..2 : HasWildcard(arg.namespaceDetails[j].Dimensions.items)

C8_Witness ==
  /\ pc = "compare_done"
  /\ ret.result
  /\ Len(arg.dim2) = 2
  /\ HasWildcard(arg.dim2)
  /\ ~HasWildcard(arg.dim1)

C9_Witness ==
  /\ pc = "compare_done"
  /\ ~HasWildcard(arg.dim1) /\ ~HasWildcard(arg.dim2)
  /\ Len(arg.dim1) = 2
  /\ arg.dim1 # arg.dim2
  /\ ret.result /\ ret.swapped

C10_Witness ==
  /\ pc = "queries_done"
  /\ Len(arg.listMetricsTotal) = MaxMetrics
  /\ \E k \in 1..Len(ret) : ret[k].Id = <<"c", "w", "1", "0", "s", "t", "a", "t", "s", "1">>

(***************************************************************************)
(* Fetch on one region with metric names that hold the label separator,    *)
(* given in an exact entry or listed by ListMetrics.                       *)
(***************************************************************************)
\* An exact entry whose label has 6 fields, and discovery of the namespace
\* whose catalog has labels of 4 and 6 fields, without a resource type.
ConfigPipeExact ==
  <<Entry(NsE, Slice(<<PipeName>>), Slice(<<Dim(<<"I">>, <<"x">>)>>), RtE, Slice(<<Sum>>)),
    Entry(NsM, NilSlice, NilSlice, <<>>, Slice(<<Sum>>))>>

\* Discovery of that namespace with a resource type.
ConfigPipeDiscovery ==
  <<Entry(NsM, NilSlice, NilSlice, RtE, Slice(<<Sum>>))>>

InitMalformed ==
  /\ pc = "fetch_start"
  /\ arg \in [CloudwatchConfigs : {ConfigPipeExact, ConfigPipeDiscovery},
              TagsFilter : TagsFilters,
              RegionsList : {<<R1>>}]
  /\ ret = NoCall
  /\ IdleFetch

SpecMalformed == InitMalformed /\ [][NextPass]_vars

\* C11: a label decodes to 3 or 5 fields and createEvents treats any other
\* count as a malformed label. A result at the alignment timestamp whose label
\* has another field count puts its metric field into no event, and the call
\* does not abort on it.
C11_MalformedLabelRejected ==
  (HasLastCall /\ LastCall.out.step \in {"untagged", "tagged"}) =>
    /\ ~LastCall.out.panic
    /\ \A res \in ResultsAtTimestamp :
         Len(res.labels) \notin {3, 5} =>
           \A id \in DOMAIN LastCall.out.events :
             GenerateFieldName(res.labels[2], res.labels)
               \notin DOMAIN LastCall.out.events[id].RootFields

(***************************************************************************)
(* createEvents on one metric with one statistic and an empty tag filter,  *)
(* for every choice of what the tagging API returns per resource type.     *)
(***************************************************************************)
TagMetricMenu ==
  {Metric(NsE, <<"c">>, <<Dim(<<"I">>, <<"x">>)>>),
   Metric(NsS, <<"c">>, <<Dim(<<"T">>, <<"s">>), Dim(<<"B">>, <<"b">>)>>),
   Metric(NsS, <<"c">>, <<Dim(<<"R">>, ArnZ)>>)}

\* Tag maps GetResourcesTags can return: those of TagDB, one with tags on both
\* sub-identifiers of a composite identifier, one with two keys that DeDot
\* makes equal, one with other values for the resources of TagDB.
TagMapMenu ==
  {EmptyMap, TagDB(RtE), TagDB(RtS),
   (<<"s">> :> <<EnvDev>>) @@ (<<"b">> :> <<EnvProd>>),
   (<<"b">> :> <<OwnerTag, Tag(<<"o", "_", "k">>, <<"w">>)>>),
   (<<"x">> :> <<EnvDev>>) @@ (<<"z">> :> <<EnvDev>>)}

InitTags ==
  /\ pc = "tags_call"
  /\ arg \in {[list |-> <<[CloudwatchMetric |-> metric, Statistic |-> <<Sum>>]>>,
               filters |-> [t \in DOMAIN maps |-> <<>>],
               env |-> [getMetricDataErr |-> FALSE,
                        series |-> <<(<<1>>)>>,
                        tagResults |-> [t \in DOMAIN maps |->
                                          [err |-> FALSE, resourceTagMap |-> maps[t]]],
                        order |-> order]] :
                metric \in TagMetricMenu,
                <<maps, order>> \in UNION {[types -> TagMapMenu] \X Orders(types) :
                                             types \in (SUBSET {RtE, RtS}) \ {{}}}}
  /\ ret = NoCall
  /\ IdleFetch

CallCreateEvents ==
  /\ pc = "tags_call"
  /\ pc' = "tags_done"
  /\ ret' = [out |-> createEvents(arg.list, arg.filters, R1, arg.env)]
  /\ UNCHANGED <<arg, fetchVars>>

NextTags == CallCreateEvents

SpecTags == InitTags /\ [][NextTags]_vars

\* The tags one InsertTags call puts for the sub-identifiers from i, in order.
RECURSIVE TagPutsOf(_, _, _)
TagPutsOf(subIdentifiers, resourceTagMap, i) ==
  IF i > Len(subIdentifiers) THEN <<>>
  ELSE TagsForSubIdentifier(subIdentifiers[i], resourceTagMap)
       \o TagPutsOf(subIdentifiers, resourceTagMap, i + 1)

\* The tags the InsertTags calls for an identifier put, over the resource
\* types from r in the order of the range.
RECURSIVE TagPutsOver(_, _)
TagPutsOver(identifier, r) ==
  IF r > Len(arg.env.order) THEN <<>>
  ELSE TagPutsOf(Split(identifier, dimensionSeparator),
                 arg.env.tagResults[arg.env.order[r]].resourceTagMap, 1)
       \o TagPutsOver(identifier, r + 1)

\* C12: tag attachment never overwrites a tag already attached to an event.
\* In the events createEvents returns, the value of each aws.tags.<key> field
\* is the value of the first tag put under that key, whether a later tag of
\* another sub-identifier, of the same dedotted key or of another resource
\* type has that key too.
C12_TagsNeverOverwritten ==
  pc = "tags_done" =>
    \A id \in DOMAIN ret.out.events :
      LET puts == TagPutsOver(id, 1)
          fields == ret.out.events[id].RootFields
      IN  \A i \in 1..Len(puts) :
            (\A j \in 1..(i - 1) : DeDot(puts[j].Key) # DeDot(puts[i].Key)) =>
              /\ TagsPrefix \o DeDot(puts[i].Key) \in DOMAIN fields
              /\ fields[TagsPrefix \o DeDot(puts[i].Key)] = puts[i].Value

\* Whether a non-empty tag filter is active for the last createEvents call: the
\* call got resource types with tag filters, and the filter is not empty.
TagFilterActive ==
  /\ DOMAIN LastCall.resourceTypeTagFilters # {}
  /\ \A t \in DOMAIN LastCall.resourceTypeTagFilters :
       Len(LastCall.resourceTypeTagFilters[t]) # 0

\* The results of the last call at the alignment timestamp whose label has 3
\* fields.
ResultsWithoutDimension == {res \in ResultsAtTimestamp : Len(res.labels) = 3}

\* C13: identity fallback. A result whose label has 3 fields is grouped under
\* the identity region + account id + namespace: without an active non-empty
\* tag filter the event of that identity holds its metric field and the
\* namespace. With a non-empty tag filter active for the pass no event is
\* created or updated for such a result: every emitted event has the
\* identifier value of a 5-field label as its identity.
C13_FallbackIdentity ==
  (HasLastCall /\ LastCall.out.step \in {"untagged", "tagged"}) =>
    LET events == LastCall.out.events
        regionName == arg.RegionsList[LastCall.pass.regionIdx]
    IN  IF TagFilterActive
        THEN /\ \A res \in ResultsWithoutDimension :
                  regionName \o AccountID \o res.labels[2] \notin DOMAIN events
             /\ \A id \in DOMAIN events :
                  \E res \in ResultsAtTimestamp : Len(res.labels) = 5 /\ res.labels[5] = id
        ELSE \A res \in ResultsWithoutDimension :
               LET identifier == regionName \o AccountID \o res.labels[2]
               IN  /\ identifier \in DOMAIN events
                   /\ GenerateFieldName(res.labels[2], res.labels)
                        \in DOMAIN events[identifier].RootFields
                   /\ events[identifier].RootFields[NamespaceField] = res.labels[2]
                   /\ events[identifier].region = regionName

C13_Witness ==
  /\ HasLastCall
  /\ LastCall.out.step = "tagged"
  /\ TagFilterActive
  /\ ResultsWithoutDimension # {}
  /\ DOMAIN LastCall.out.events # {}

====
